---- MODULE Spec2Model ----
(***************************************************************************)
(* Model of the tool registry (agentic-hands-on/tool_registry.py) and the  *)
(* six tools it dispatches to (agentic-hands-on/tools.py).                 *)
(*                                                                         *)
(* Text is a tuple of one-character strings, so that str.split, str.lower  *)
(* and len act on characters.  A polarity is an integer number of          *)
(* thousandths, so that round(avg, 3) is an integer rounding.              *)
(***************************************************************************)
EXTENDS Integers, Sequences, FiniteSets, TLC

VARIABLES
  toolList,      \* the list given to ToolRegistry(...)
  tools,         \* self._tools
  lastCall,      \* the last step: its operation, name and args
  env,           \* what the collaborators answer during the last call
  result,        \* how the last call ended: a return value or a raised error
  runLog,        \* the tool.run calls the last call made
  feedLog,       \* its feedparser.parse calls
  scoreLog,      \* the texts it handed to TextBlob
  plotLog,       \* its matplotlib calls
  firstSchemas,  \* what the first schemas() call returned
  held           \* the schema dicts of that first answer, as the caller holds them

vars == <<toolList, tools, lastCall, env, result, runLog, feedLog, scoreLog,
          plotLog, firstSchemas, held>>

\* ---------------------------------------------------------------- bounds
MaxTools == 2
MaxFeed == 2
MaxLimit == 3

\* ------------------------------------------------------- program constants
MinTokenLen == 3
TopN == 10
MinSlaHours == 2
MinVolume == 1000

None == [kind |-> "none"]

\* ------------------------------------------------------------------ tools
ClassName(cls) ==
  CASE cls = "ChooseTransportTool" -> "choose_transport"
    [] cls = "EstimateCostTool" -> "estimate_cost"
    [] cls = "EstimateLatencyTool" -> "estimate_latency"
    [] cls = "FetchNewsTool" -> "fetch_news"
    [] cls = "PlotTopicFrequencyTool" -> "plot_topic_frequency"
    [] cls = "AnalyzeSentimentTool" -> "analyze_sentiment"

ClassDescription(cls) ==
  CASE cls = "ChooseTransportTool" -> "Choose Kafka vs API based on system constraints"
    [] cls = "EstimateCostTool" -> "Estimate relative infrastructure cost"
    [] cls = "EstimateLatencyTool" -> "Estimate end-to-end system latency"
    [] cls = "FetchNewsTool" -> "Fetch latest news headlines using open RSS feeds"
    [] cls = "PlotTopicFrequencyTool" -> "Plot most frequent words in headlines"
    [] cls = "AnalyzeSentimentTool" -> "Analyze sentiment of text headlines"

\* A tool instance: its identity, its class, and the name and description
\* attributes read through self.
NewTool(id, cls) ==
  [id |-> id, cls |-> cls, name |-> ClassName(cls),
   description |-> ClassDescription(cls)]

\* An instance whose name attribute was set to another value.
Renamed(tool, name) == [tool EXCEPT !.name = name]

ParamProperties(cls) ==
  CASE cls = "ChooseTransportTool" ->
         [sla_hours |-> [type |-> "integer"],
          volume |-> [type |-> "integer"],
          push |-> [type |-> "boolean"]]
    [] cls = "EstimateCostTool" ->
         [transport |-> [type |-> "string", enum |-> <<"Kafka", "API">>],
          volume |-> [type |-> "integer"]]
    [] cls = "EstimateLatencyTool" ->
         [transport |-> [type |-> "string", enum |-> <<"Kafka", "API">>],
          sla_hours |-> [type |-> "integer"]]
    [] cls = "FetchNewsTool" ->
         [topic |-> [type |-> "string"], limit |-> [type |-> "integer"]]
    [] cls = "PlotTopicFrequencyTool" ->
         [headlines |-> [type |-> "array", items |-> [type |-> "string"]]]
    [] cls = "AnalyzeSentimentTool" ->
         [headlines |-> [type |-> "array", items |-> [type |-> "string"]]]

ParamRequired(cls) ==
  CASE cls = "ChooseTransportTool" -> <<"sla_hours", "volume", "push">>
    [] cls = "EstimateCostTool" -> <<"transport", "volume">>
    [] cls = "EstimateLatencyTool" -> <<"transport", "sla_hours">>
    [] cls = "FetchNewsTool" -> <<"topic", "limit">>
    [] cls = "PlotTopicFrequencyTool" -> <<"headlines">>
    [] cls = "AnalyzeSentimentTool" -> <<"headlines">>

\* tool.schema(): a dict built anew on every call.
schema(tool) ==
  [type |-> "function",
   function |->
     [name |-> tool.name,
      description |-> tool.description,
      parameters |->
        [type |-> "object",
         properties |-> ParamProperties(tool.cls),
         required |-> ParamRequired(tool.cls)]]]

\* The keyword parameters of run(self, ...).
RunParams(cls) == { ParamRequired(cls)[i] : i \in 1..Len(ParamRequired(cls)) }

\* ------------------------------------------------- outcomes of a call
Return(value) == [kind |-> "return", value |-> value]
Raise(exc, message) == [kind |-> "raise", exc |-> exc, message |-> message]

\* What one run leaves behind: its outcome and the calls it made to the
\* feed, scoring and rendering collaborators.
Effect(outcome, feedCalls, scoreCalls, plotCalls) ==
  [outcome |-> outcome, feedLog |-> feedCalls, scoreLog |-> scoreCalls,
   plotLog |-> plotCalls]

\* ------------------------------------------- the registry's mapping
\* A dict: its keys in insertion order and the value under each key.
EmptyDict == [keys |-> <<>>, val |-> <<>>]

DictKeys(d) == { d.keys[i] : i \in 1..Len(d.keys) }

\* d[k] = v: a new key goes last, a known key keeps its place.
DictSet(d, k, v) ==
  IF k \in DictKeys(d)
  THEN [keys |-> d.keys, val |-> [x \in DictKeys(d) |-> IF x = k THEN v ELSE d.val[x]]]
  ELSE [keys |-> Append(d.keys, k),
        val |-> [x \in DictKeys(d) \cup {k} |-> IF x = k THEN v ELSE d.val[x]]]

DictValues(d) == [i \in 1..Len(d.keys) |-> d.val[d.keys[i]]]

RECURSIVE DictFromTools(_)
DictFromToolsFirstWins(list) ==
  IF list = <<>> THEN EmptyDict
  ELSE LET d == DictFromTools(SubSeq(list, 1, Len(list) - 1))
           t == list[Len(list)]
       IN IF t.name \in DictKeys(d) THEN d ELSE DictSet(d, t.name, t)

\* {tool.name: tool for tool in tools}
DictFromTools(list) ==
  IF list = <<>> THEN EmptyDict
  ELSE LET t == list[Len(list)]
       IN DictSet(DictFromTools(SubSeq(list, 1, Len(list) - 1)), t.name, t)

\* ------------------------------------------------------------- text
IsSpace(c) == c \in {" ", "\t", "\n"}

\* str.lower on the letters the inputs use.
LowerChar(c) ==
  CASE c = "K" -> "k"
    [] c = "T" -> "t"
    [] c = "W" -> "w"
    [] OTHER -> c

lower(w) == [i \in 1..Len(w) |-> LowerChar(w[i])]

\* str.split(): the maximal runs of non-whitespace characters, in order.
RECURSIVE SplitFrom(_, _, _)
SplitFrom(s, i, cur) ==
  IF i > Len(s) THEN (IF cur = <<>> THEN <<>> ELSE <<cur>>)
  ELSE IF IsSpace(s[i])
       THEN (IF cur = <<>> THEN <<>> ELSE <<cur>>) \o SplitFrom(s, i + 1, <<>>)
       ELSE SplitFrom(s, i + 1, Append(cur, s[i]))

split(s) == SplitFrom(s, 1, <<>>)

\* [w.lower() for w in h.split() if len(w) >= 3]
RECURSIVE LongWordsInclusive(_)
LongWordsInclusive(ws) ==
  IF ws = <<>> THEN <<>>
  ELSE (IF Len(ws[1]) >= MinTokenLen THEN <<lower(ws[1])>> ELSE <<>>)
       \o LongWordsInclusive(Tail(ws))

\* [w.lower() for w in h.split() if len(w) > 3]
RECURSIVE LongWords(_)
LongWords(ws) ==
  IF ws = <<>> THEN <<>>
  ELSE (IF Len(ws[1]) > MinTokenLen THEN <<lower(ws[1])>> ELSE <<>>)
       \o LongWords(Tail(ws))

\* Counter(words): each distinct word with its count, in first-seen order.
RECURSIVE Counter(_)
Counter(words) ==
  IF words = <<>> THEN EmptyDict
  ELSE LET c == Counter(SubSeq(words, 1, Len(words) - 1))
           w == words[Len(words)]
       IN DictSet(c, w, IF w \in DictKeys(c) THEN c.val[w] + 1 ELSE 1)

\* Counter.items() as (word, count) pairs.
Items(c) == [i \in 1..Len(c.keys) |-> <<c.keys[i], c.val[c.keys[i]]>>]

RemoveAt(s, i) == SubSeq(s, 1, i - 1) \o SubSeq(s, i + 1, Len(s))

\* Counter.most_common(n): the n highest counts, ties in first-seen order.
RECURSIVE most_common(_, _)
most_common(items, n) ==
  IF n <= 0 \/ items = <<>> THEN <<>>
  ELSE LET best == CHOOSE i \in 1..Len(items) :
                     /\ \A j \in 1..Len(items) : items[j][2] <= items[i][2]
                     /\ \A j \in 1..(i - 1) : items[j][2] < items[i][2]
       IN <<items[best]>> \o most_common(RemoveAt(items, best), n - 1)

\* -------------------------------------------------------- arithmetic
RECURSIVE sum(_)
sum(xs) == IF xs = <<>> THEN 0 ELSE xs[1] + sum(Tail(xs))

\* num / den rounded to the nearest integer, halves to the even one
\* (round(avg, 3) on thousandths).
RoundHalfEven(num, den) ==
  LET q == num \div den
      r == num - q * den
  IN IF 2 * r < den THEN q
     ELSE IF 2 * r > den THEN q + 1
     ELSE IF q % 2 = 0 THEN q ELSE q + 1

\* seq[:limit]: a negative limit counts from the end.
SliceTo(seq, limit) ==
  LET n == Len(seq)
      stop == IF limit >= 0
              THEN (IF limit < n THEN limit ELSE n)
              ELSE (IF n + limit > 0 THEN n + limit ELSE 0)
  IN SubSeq(seq, 1, stop)

\* ---------------------------------------------------- the tools' run
ChooseTransportRunStrict(kw) ==
  IF kw.push /\ kw.sla_hours > MinSlaHours /\ kw.volume >= MinVolume
  THEN Effect(Return([transport |-> "Kafka"]), <<>>, <<>>, <<>>)
  ELSE Effect(Return([transport |-> "API"]), <<>>, <<>>, <<>>)

ChooseTransportRun(kw) ==
  IF kw.push /\ kw.sla_hours >= MinSlaHours /\ kw.volume >= MinVolume
  THEN Effect(Return([transport |-> "Kafka"]), <<>>, <<>>, <<>>)
  ELSE Effect(Return([transport |-> "API"]), <<>>, <<>>, <<>>)

\* The labels are written with "-" where the source has an en dash.
EstimateCostRunByVolume(kw) ==
  IF kw.transport = "Kafka" /\ kw.volume >= MinVolume
  THEN Effect(Return([cost |-> "Medium-High (broker, ops, storage)"]), <<>>, <<>>, <<>>)
  ELSE Effect(Return([cost |-> "Low-Medium (stateless scaling)"]), <<>>, <<>>, <<>>)

EstimateCostRun(kw) ==
  IF kw.transport = "Kafka"
  THEN Effect(Return([cost |-> "Medium-High (broker, ops, storage)"]), <<>>, <<>>, <<>>)
  ELSE Effect(Return([cost |-> "Low-Medium (stateless scaling)"]), <<>>, <<>>, <<>>)

EstimateLatencyRun(kw) ==
  IF kw.transport = "Kafka"
  THEN Effect(Return([latency |-> "Seconds-Minutes (async)"]), <<>>, <<>>, <<>>)
  ELSE Effect(Return([latency |-> "Milliseconds-Seconds (sync)"]), <<>>, <<>>, <<>>)

FeedUrl(topic) == <<"https://news.google.com/rss/search?q=", topic>>

Titles(entries) == [i \in 1..Len(entries) |-> entries[i].title]

FetchNewsRunOffByOne(kw, world) ==
  Effect(Return([headlines |-> Titles(SliceTo(world.entries, kw.limit + 1))]),
         <<[url |-> FeedUrl(kw.topic), entries |-> world.entries]>>, <<>>, <<>>)

\* world.entries is what feedparser.parse answers for the url.
FetchNewsRun(kw, world) ==
  Effect(Return([headlines |-> Titles(SliceTo(world.entries, kw.limit))]),
         <<[url |-> FeedUrl(kw.topic), entries |-> world.entries]>>, <<>>, <<>>)

RECURSIVE Words(_)
Words(headlines) ==
  IF headlines = <<>> THEN <<>>
  ELSE LongWords(split(headlines[1])) \o Words(Tail(headlines))

PlotCalls(labels, values) ==
  << [call |-> "figure"],
     [call |-> "bar", labels |-> labels, values |-> values],
     [call |-> "xticks"], [call |-> "title"], [call |-> "tight_layout"],
     [call |-> "show"] >>

\* labels, values = zip(*counts) has nothing to unpack when counts is empty.
PlotTopicFrequencyRun(kw) ==
  LET counts == most_common(Items(Counter(Words(kw.headlines))), TopN)
  IN IF counts = <<>>
     THEN Effect(Raise("ValueError", <<"not enough values to unpack">>),
                 <<>>, <<>>, <<>>)
     ELSE Effect(Return([status |-> "plot_created"]), <<>>, <<>>,
                 PlotCalls([i \in 1..Len(counts) |-> counts[i][1]],
                           [i \in 1..Len(counts) |-> counts[i][2]]))

Scores(headlines, world) == [i \in 1..Len(headlines) |-> world.polarity[headlines[i]]]

AnalyzeSentimentRunUnguarded(kw, world) ==
  LET scores == Scores(kw.headlines, world)
  IN IF scores = <<>>
     THEN Effect(Raise("ZeroDivisionError", <<"division by zero">>), <<>>, <<>>, <<>>)
     ELSE Effect(Return([average_sentiment |-> RoundHalfEven(sum(scores), Len(scores))]),
                 <<>>, kw.headlines, <<>>)

\* world.polarity is what TextBlob(h).sentiment.polarity answers for h.
AnalyzeSentimentRun(kw, world) ==
  LET scores == Scores(kw.headlines, world)
      avg == IF scores # <<>> THEN RoundHalfEven(sum(scores), Len(scores)) ELSE 0
  IN Effect(Return([average_sentiment |-> avg]), <<>>, kw.headlines, <<>>)

\* tool.run(**kwargs): the keywords must be exactly run's parameters.
run(tool, kwargs, world) ==
  IF DOMAIN kwargs # RunParams(tool.cls)
  THEN Effect(Raise("TypeError", <<"run() keyword arguments">>), <<>>, <<>>, <<>>)
  ELSE CASE tool.cls = "ChooseTransportTool" -> ChooseTransportRun(kwargs)
         [] tool.cls = "EstimateCostTool" -> EstimateCostRun(kwargs)
         [] tool.cls = "EstimateLatencyTool" -> EstimateLatencyRun(kwargs)
         [] tool.cls = "FetchNewsTool" -> FetchNewsRun(kwargs, world)
         [] tool.cls = "PlotTopicFrequencyTool" -> PlotTopicFrequencyRun(kwargs)
         [] tool.cls = "AnalyzeSentimentTool" -> AnalyzeSentimentRun(kwargs, world)

\* ------------------------------------------------------ ToolRegistry
ToolRegistryInit(list) == DictFromTools(list)

schemasReversed(reg) ==
  LET vs == DictValues(reg)
  IN [i \in 1..Len(vs) |-> schema(vs[Len(vs) + 1 - i])]

\* [tool.schema() for tool in self._tools.values()]
schemas(reg) ==
  LET vs == DictValues(reg)
  IN [i \in 1..Len(vs) |-> schema(vs[i])]

Called(outcome, calls, effect) ==
  [outcome |-> outcome, runLog |-> calls, feedLog |-> effect.feedLog,
   scoreLog |-> effect.scoreLog, plotLog |-> effect.plotLog]

NoEffect == Effect(None, <<>>, <<>>, <<>>)

NotRegistered(name) == Raise("ValueError", <<"Tool '", name, "' not registered">>)

executeFallback(reg, name, args, world) ==
  IF name \notin DictKeys(reg) /\ reg.keys = <<>>
  THEN Called(NotRegistered(name), <<>>, NoEffect)
  ELSE LET tool == IF name \in DictKeys(reg) THEN reg.val[name]
                   ELSE reg.val[reg.keys[1]]
           e == run(tool, args, world)
       IN Called(e.outcome, <<[tool |-> tool, kwargs |-> args]>>, e)

executeFirstKey(reg, name, args, world) ==
  IF name \notin DictKeys(reg)
  THEN Called(NotRegistered(name), <<>>, NoEffect)
  ELSE LET tool == reg.val[reg.keys[1]]
           e == run(tool, args, world)
       IN Called(e.outcome, <<[tool |-> tool, kwargs |-> args]>>, e)

\* ToolRegistry.execute: the outcome, the tool calls made and what the
\* called tool did.
execute(reg, name, args, world) ==
  IF name \notin DictKeys(reg)
  THEN Called(NotRegistered(name), <<>>, NoEffect)
  ELSE LET tool == reg.val[name]
           e == run(tool, args, world)
       IN Called(e.outcome, <<[tool |-> tool, kwargs |-> args]>>, e)

\* ------------------------------------------------------------ inputs
ChooseTransportTool == NewTool(1, "ChooseTransportTool")
EstimateCostTool == NewTool(2, "EstimateCostTool")
EstimateLatencyTool == NewTool(3, "EstimateLatencyTool")
FetchNewsTool == NewTool(4, "FetchNewsTool")
PlotTopicFrequencyTool == NewTool(5, "PlotTopicFrequencyTool")
AnalyzeSentimentTool == NewTool(6, "AnalyzeSentimentTool")

\* One instance of every tool class, in the order tools.py defines them.
AllTools ==
  << ChooseTransportTool, EstimateCostTool, EstimateLatencyTool,
     FetchNewsTool, PlotTopicFrequencyTool, AnalyzeSentimentTool >>

\* Instances that can share a name: a second ChooseTransportTool, and an
\* EstimateLatencyTool whose name was set to "estimate_cost".
SomeTools ==
  { ChooseTransportTool, NewTool(7, "ChooseTransportTool"), EstimateCostTool,
    Renamed(NewTool(8, "EstimateLatencyTool"), "estimate_cost") }

SeqsUpTo(S, n) == UNION { [1..k -> S] : k \in 0..n }

\* The full tool set followed by an instance that shadows one of its names.
Shadowed == Append(AllTools, Renamed(NewTool(8, "EstimateLatencyTool"), "estimate_cost"))

ToolLists == {AllTools, Shadowed} \cup SeqsUpTo(SomeTools, MaxTools)

CallNames == { AllTools[i].name : i \in 1..Len(AllTools) } \cup {"unknown_tool"}

TheCatSat == <<"t","h","e"," ","c","a","t"," ","s","a","t">>
TheCatRan == <<"t","h","e"," ","c","a","t"," ","r","a","n">>
KafkaNews ==
  <<"K","a","f","k","a"," ","b","e","a","t","s"," "," ","k","a","f","k","a","\n">>

Letters == <<"a","b","c","d","e","f","g","h","i","j","k","l","m","n","o","p">>

\* n distinct words of four letters, separated by single spaces.
RECURSIVE ManyWords(_)
ManyWords(n) ==
  IF n = 0 THEN <<>>
  ELSE ManyWords(n - 1) \o (IF n > 1 THEN <<" ">> ELSE <<>>)
       \o <<"W","o","r", Letters[n]>>

PlotInputs ==
  { <<>>, <<TheCatSat, TheCatRan>>, <<KafkaNews>>, <<TheCatSat, KafkaNews>>,
    <<ManyWords(TopN + 1)>>, <<KafkaNews, ManyWords(TopN + 1), KafkaNews>> }

SentimentInputs ==
  { <<>>, <<KafkaNews>>, <<TheCatSat, KafkaNews, TheCatSat>> }

Polarities == {-1000, 125, 1000}

Entry(i) == [title |-> <<"title", i>>]

Feeds == { [i \in 1..n |-> Entry(i)] : n \in 0..MaxFeed }

Limits == (-1)..MaxLimit

CostArgs == [transport : {"Kafka", "API"}, volume : {1, 999999}]
LatencyArgs == [transport : {"Kafka", "API"}, sla_hours : {1, 5}]

ArgsFor(name) ==
  CASE name = "choose_transport" ->
         [sla_hours : {1, 2, 5}, volume : {999, 1000}, push : BOOLEAN]
    [] name = "estimate_cost" -> CostArgs \cup LatencyArgs
    [] name = "estimate_latency" -> LatencyArgs
    [] name = "fetch_news" -> [topic : {"kafka"}, limit : Limits]
    [] name = "plot_topic_frequency" -> [headlines : PlotInputs]
    [] name = "analyze_sentiment" -> [headlines : SentimentInputs]
    [] OTHER -> { <<>>, [topic |-> "kafka", limit |-> 1] }

NoEntries == <<>>
NoPolarity == <<>>
NoEnv == [entries |-> NoEntries, polarity |-> NoPolarity]

\* What the collaborators answer during one call.
EnvFor(name, args) ==
  CASE name = "fetch_news" -> [entries : Feeds, polarity : {NoPolarity}]
    [] name = "analyze_sentiment" ->
         [entries : {NoEntries},
          polarity : [{args.headlines[i] : i \in 1..Len(args.headlines)} -> Polarities]]
    [] OTHER -> [entries : {NoEntries}, polarity : {NoPolarity}]

\* ------------------------------------------------------- transitions
Init ==
  /\ toolList \in ToolLists
  /\ tools = ToolRegistryInit(toolList)
  /\ lastCall = [op |-> "init", name |-> "", args |-> <<>>]
  /\ env = NoEnv
  /\ result = None
  /\ runLog = <<>>
  /\ feedLog = <<>>
  /\ scoreLog = <<>>
  /\ plotLog = <<>>
  /\ firstSchemas = None
  /\ held = <<>>

SchemasCached ==
  /\ lastCall' = [op |-> "schemas", name |-> "", args |-> <<>>]
  /\ result' = Return(IF firstSchemas = None THEN schemas(tools) ELSE held)
  /\ firstSchemas' = IF firstSchemas = None THEN Return(schemas(tools)) ELSE firstSchemas
  /\ held' = IF firstSchemas = None THEN schemas(tools) ELSE held
  /\ env' = NoEnv
  /\ runLog' = <<>> /\ feedLog' = <<>> /\ scoreLog' = <<>> /\ plotLog' = <<>>
  /\ UNCHANGED <<toolList, tools>>

\* registry.schemas(); the caller keeps the objects of the first answer.
Schemas ==
  /\ lastCall' = [op |-> "schemas", name |-> "", args |-> <<>>]
  /\ result' = Return(schemas(tools))
  /\ firstSchemas' = IF firstSchemas = None THEN Return(schemas(tools)) ELSE firstSchemas
  /\ held' = IF firstSchemas = None THEN schemas(tools) ELSE held
  /\ env' = NoEnv
  /\ runLog' = <<>> /\ feedLog' = <<>> /\ scoreLog' = <<>> /\ plotLog' = <<>>
  /\ UNCHANGED <<toolList, tools>>

\* registry.execute(name, args)
Execute ==
  \E name \in CallNames : \E args \in ArgsFor(name) : \E e \in EnvFor(name, args) :
    LET c == execute(tools, name, args, e)
    IN /\ lastCall' = [op |-> "execute", name |-> name, args |-> args]
       /\ env' = e
       /\ result' = c.outcome
       /\ runLog' = c.runLog
       /\ feedLog' = c.feedLog
       /\ scoreLog' = c.scoreLog
       /\ plotLog' = c.plotLog
       /\ UNCHANGED <<toolList, tools, firstSchemas, held>>

\* The caller writes into the first schema dict it was handed.
CallerMutates ==
  /\ held # <<>>
  /\ held[1].function.name # "mutated"
  /\ held' = [held EXCEPT ![1].function.name = "mutated"]
  /\ lastCall' = [op |-> "mutate", name |-> "", args |-> <<>>]
  /\ result' = None
  /\ env' = NoEnv
  /\ runLog' = <<>> /\ feedLog' = <<>> /\ scoreLog' = <<>> /\ plotLog' = <<>>
  /\ UNCHANGED <<toolList, tools, firstSchemas>>

Next == Schemas \/ Execute \/ CallerMutates

Spec == Init /\ [][Next]_vars

\* ---------------------------------------------------------- properties
NamesOf(list) == { list[i].name : i \in 1..Len(list) }

DistinctNames(list) ==
  \A i, j \in 1..Len(list) : list[i].name = list[j].name => i = j

\* The last tool of the list that carries the name.
LastNamed(list, name) ==
  list[CHOOSE i \in 1..Len(list) :
         /\ list[i].name = name
         /\ \A j \in (i + 1)..Len(list) : list[j].name # name]

IsPrefix(p, s) == Len(p) <= Len(s) /\ \A i \in 1..Len(p) : p[i] = s[i]

InSeq(x, s) == \E i \in 1..Len(s) : s[i] = x

NoCollaboratorCalled == feedLog = <<>> /\ scoreLog = <<>> /\ plotLog = <<>>

\* The last step was execute(name, ...) and reached a tool of class cls
\* with exactly the keywords its run takes.
Ran(name, cls) ==
  /\ lastCall.op = "execute"
  /\ lastCall.name = name
  /\ name \in NamesOf(toolList)
  /\ LastNamed(toolList, name).cls = cls
  /\ DOMAIN lastCall.args = RunParams(cls)

\* C1: execute with a name that no tool of the list carries ends in the
\* registry's lookup error (the ValueError of ToolRegistry.execute), the
\* error names the requested name, and no tool and no collaborator ran.
C1_UnknownNameFails ==
  (lastCall.op = "execute" /\ lastCall.name \notin NamesOf(toolList)) =>
    /\ result.kind = "raise"
    /\ result.exc = "ValueError"
    /\ InSeq(lastCall.name, result.message)
    /\ runLog = <<>>
    /\ NoCollaboratorCalled

C1_Witness ==
  /\ lastCall.op = "execute"
  /\ lastCall.name = "unknown_tool"
  /\ lastCall.args # <<>>
  /\ toolList = AllTools
  /\ result.kind = "raise"

\* C2: execute with a registered name calls run exactly once, on the tool
\* registered under that name, with exactly the keywords of args, and ends
\* the way that call ended.
C2_ForwardsToOneTool ==
  (lastCall.op = "execute" /\ lastCall.name \in NamesOf(toolList)) =>
    /\ Len(runLog) = 1
    /\ runLog[1].tool = LastNamed(toolList, lastCall.name)
    /\ runLog[1].kwargs = lastCall.args
    /\ result = run(LastNamed(toolList, lastCall.name), lastCall.args, env).outcome

C2_Witness ==
  /\ Ran("fetch_news", "FetchNewsTool")
  /\ Len(toolList) > 1
  /\ result.kind = "return"
  /\ result.value.headlines # <<>>

\* C3: when the names of the list are pairwise distinct, schemas() returns
\* one entry per tool of the list, the i-th being the schema of the i-th tool.
C3_SchemasInListOrder ==
  (lastCall.op = "schemas" /\ DistinctNames(toolList)) =>
    /\ result.kind = "return"
    /\ Len(result.value) = Len(toolList)
    /\ \A i \in 1..Len(toolList) : result.value[i] = schema(toolList[i])

C3_Witness ==
  /\ lastCall.op = "schemas"
  /\ toolList = AllTools
  /\ Len(result.value) = Len(AllTools)

\* C4: execute("choose_transport", {sla_hours, volume, push}) returns
\* transport "Kafka" when push is true, sla_hours >= 2 and volume >= 1000,
\* transport "API" otherwise, and never raises.
C4_ChooseTransport ==
  Ran("choose_transport", "ChooseTransportTool") =>
    result = Return([transport |->
                       IF /\ lastCall.args.push
                          /\ lastCall.args.sla_hours >= 2
                          /\ lastCall.args.volume >= 1000
                       THEN "Kafka" ELSE "API"])

C4_Witness ==
  /\ Ran("choose_transport", "ChooseTransportTool")
  /\ lastCall.args = [sla_hours |-> 2, volume |-> 1000, push |-> TRUE]
  /\ result = Return([transport |-> "Kafka"])

\* The last step ran one of the two estimators.
EstimatorRan ==
  \/ Ran(lastCall.name, "EstimateCostTool")
  \/ Ran(lastCall.name, "EstimateLatencyTool")

EstimateTable(cls, transport) ==
  IF cls = "EstimateCostTool"
  THEN (IF transport = "Kafka" THEN [cost |-> "Medium-High (broker, ops, storage)"]
        ELSE [cost |-> "Low-Medium (stateless scaling)"])
  ELSE (IF transport = "Kafka" THEN [latency |-> "Seconds-Minutes (async)"]
        ELSE [latency |-> "Milliseconds-Seconds (sync)"])

\* C5: two executions of the same estimator with the same transport end
\* alike whatever their second argument, and the result for a transport is
\* the table's entry for it.
C5_EstimatorsReadTransportOnly ==
  /\ [](EstimatorRan =>
          result = Return(EstimateTable(runLog[1].tool.cls, lastCall.args.transport)))
  /\ [][ ( /\ EstimatorRan
           /\ EstimatorRan'
           /\ runLog'[1].tool.cls = runLog[1].tool.cls
           /\ lastCall'.args.transport = lastCall.args.transport )
         => result' = result ]_vars

C5_Witness ==
  /\ Ran("estimate_cost", "EstimateCostTool")
  /\ lastCall.args = [transport |-> "Kafka", volume |-> 999999]
  /\ result.kind = "return"

\* C6: the sentiment tool on an empty headline list returns
\* {average_sentiment: 0}, raises nothing and scores no text.
C6_EmptySentiment ==
  (Ran("analyze_sentiment", "AnalyzeSentimentTool") /\ lastCall.args.headlines = <<>>) =>
    /\ result = Return([average_sentiment |-> 0])
    /\ scoreLog = <<>>

C6_Witness ==
  /\ Ran("analyze_sentiment", "AnalyzeSentimentTool")
  /\ lastCall.args.headlines = <<>>
  /\ result.kind = "return"

\* C7 as claimed: for every integer limit the fetcher returns at most limit
\* headlines, a prefix of the feed's titles, and the empty list without
\* error for an empty feed.
C7_AtMostLimitForEveryLimit ==
  Ran("fetch_news", "FetchNewsTool") =>
    /\ result.kind = "return"
    /\ Len(result.value.headlines) <= lastCall.args.limit
    /\ IsPrefix(result.value.headlines, Titles(env.entries))
    /\ (env.entries = <<>> => result.value.headlines = <<>>)

\* C7 as amended: for every integer limit the fetcher returns a prefix of
\* the feed's titles and the empty list without error for an empty feed;
\* the prefix has at most limit elements when limit >= 0.
C7_PrefixAtMostNonNegativeLimit ==
  Ran("fetch_news", "FetchNewsTool") =>
    /\ result.kind = "return"
    /\ (lastCall.args.limit >= 0 =>
          Len(result.value.headlines) <= lastCall.args.limit)
    /\ IsPrefix(result.value.headlines, Titles(env.entries))
    /\ (env.entries = <<>> => result.value.headlines = <<>>)

C7_Witness ==
  /\ Ran("fetch_news", "FetchNewsTool")
  /\ lastCall.args.limit = 1
  /\ Len(env.entries) = 2
  /\ Len(result.value.headlines) = 1

\* C8: the mapping stays the one built at construction, and every
\* schemas() call returns what the first one returned, whatever calls
\* failed and whatever the caller wrote into the dicts it was handed.
C8_ReadOnlyAfterConstruction ==
  /\ tools = ToolRegistryInit(toolList)
  /\ (lastCall.op = "schemas" => result = firstSchemas)

C8_Witness ==
  /\ lastCall.op = "schemas"
  /\ held # firstSchemas.value
  /\ result = firstSchemas
  /\ toolList = AllTools

\* C9: when tools of the list share a name, execute reaches the last tool
\* of the list with the requested name, and schemas() holds one entry per
\* distinct name, the schema of the last tool with that name.
C9_LastDuplicateWins ==
  ~DistinctNames(toolList) =>
    /\ DictKeys(tools) = NamesOf(toolList)
    /\ (lastCall.op = "execute" /\ lastCall.name \in NamesOf(toolList)) =>
          (Len(runLog) = 1 /\ runLog[1].tool = LastNamed(toolList, lastCall.name))
    /\ lastCall.op = "schemas" =>
          /\ Len(result.value) = Cardinality(NamesOf(toolList))
          /\ \A n \in NamesOf(toolList) :
               InSeq(schema(LastNamed(toolList, n)), result.value)

C9_Witness ==
  /\ toolList = Shadowed
  /\ lastCall.op = "execute"
  /\ lastCall.name = "estimate_cost"
  /\ runLog[1].tool.cls = "EstimateLatencyTool"
  /\ result.kind = "return"

\* Some whitespace-separated token of the text has more than 3 characters.
HasLongToken(h) ==
  \E i \in 1..(Len(h) - 3) : \A k \in i..(i + 3) : ~IsSpace(h[k])

\* C10: when no token of any headline has more than 3 characters the
\* visualizer raises before any rendering call; otherwise it renders at
\* most 10 labels, each longer than 3 characters, and returns
\* {status: "plot_created"}.
C10_PlotNeedsLongToken ==
  Ran("plot_topic_frequency", "PlotTopicFrequencyTool") =>
    IF \E i \in 1..Len(lastCall.args.headlines) : HasLongToken(lastCall.args.headlines[i])
    THEN /\ result = Return([status |-> "plot_created"])
         /\ \E c \in 1..Len(plotLog) :
              /\ plotLog[c].call = "bar"
              /\ Len(plotLog[c].labels) \in 1..10
              /\ \A l \in 1..Len(plotLog[c].labels) : Len(plotLog[c].labels[l]) > 3
    ELSE /\ result.kind = "raise"
         /\ plotLog = <<>>

C10_Witness ==
  /\ Ran("plot_topic_frequency", "PlotTopicFrequencyTool")
  /\ lastCall.args.headlines = <<TheCatSat, TheCatRan>>
  /\ result.kind = "raise"

C10_WitnessTopTen ==
  /\ Ran("plot_topic_frequency", "PlotTopicFrequencyTool")
  /\ result.kind = "return"
  /\ Len(plotLog[2].labels) = 10

====
